---- MODULE Spec2Model ----
(***************************************************************************)
(* Model of unrollbench (src/unrollbench.go): a source-to-source tool that *)
(* finds benchmark functions, finds `for i := 0; i < b.N; i++` loops among *)
(* the top-level statements of their bodies and replaces each by an        *)
(* if/else holding the original loop and a ten-fold unrolled loop.         *)
(*                                                                         *)
(* Three specifications share the definitions of the program:              *)
(*   Spec     the match-and-rewrite pass of main over one parsed file,     *)
(*            run twice in a row;                                          *)
(*   SpecExec the execution of one accepted loop and of its replacement;   *)
(*   SpecRun  the driver: package resolution, then parse, stat, rewrite,   *)
(*            open, print, close for each file, with failures.             *)
(*                                                                         *)
(* The syntax tree is a heap: a sequence of nodes, a node's id being its   *)
(* index, 0 the nil pointer.  Statements, declarations and the expressions *)
(* a statement points at are nodes; the operands inside an expression are  *)
(* nested values.  Pointer sharing in the tree is therefore visible.       *)
(***************************************************************************)
EXTENDS Integers, Sequences, FiniteSets, TLC

VARIABLES
    mode,      \* which of the three specifications is running
    heap,      \* the nodes of the file's syntax tree (f and what it reaches)
    Decls,     \* f.Decls: ids of the top-level declarations, in order
    di,        \* main: index into f.Decls (range loop of line 55)
    si,        \* main: index into fn.Body.List (range loop of line 73)
    pass,      \* how many times the pass has been started on this tree
    heap0,     \* history: the tree as parsed
    heap1,     \* history: the tree when the first pass ended
    loop,      \* SpecExec: id of the accepted loop statement
    repl,      \* SpecExec: id of the statement unrolled built (0: not yet)
    N,         \* SpecExec: the value of b.N when the statement runs
    ranOrig,   \* SpecExec: result of running the original loop
    ranRepl,   \* SpecExec: result of running the replacement
    args,      \* SpecRun: os.Args[1:]
    pc,        \* SpecRun: position of main
    ai,        \* SpecRun: index into os.Args[1:]
    files,     \* SpecRun: the files slice of main
    fi,        \* SpecRun: index into files
    disk,      \* SpecRun: what each file holds on disk
    out,       \* SpecRun: lines printed on standard output
    exit,      \* SpecRun: exit status, -1 while the process runs
    trace      \* SpecRun: history of the steps main has executed

passVars == <<heap, Decls, di, si, pass, heap0, heap1>>
execVars == <<loop, repl, N, ranOrig, ranRepl>>
runVars  == <<args, pc, ai, files, fi, disk, out, exit, trace>>
vars     == <<mode, heap, Decls, di, si, pass, heap0, heap1,
              loop, repl, N, ranOrig, ranRepl,
              args, pc, ai, files, fi, disk, out, exit, trace>>

----------------------------------------------------------------------------
(* Bounds of the model and constants of the program.                       *)

MaxStmts == 2      \* statements per function body in the multi-statement inputs
MaxN == 23         \* largest b.N the execution is run with
MaxInit == 3       \* largest starting value of a loop counter
MaxArgs == 2       \* packages on the command line
MaxPkgFiles == 1   \* test files per package and per kind (in-package, external)
UnrollFactor == 10 \* the 10 of unrolled: threshold, divisor and copy count

----------------------------------------------------------------------------
(* go/ast values.  An expression is a record tagged with its node type.    *)

Nil == [kind |-> "nil"]

Ident(name) == [kind |-> "Ident", Name |-> name]

SelectorExpr(x, sel) == [kind |-> "SelectorExpr", X |-> x, Sel |-> Ident(sel)]

StarExpr(x) == [kind |-> "StarExpr", X |-> x]

BasicLit(v) == [kind |-> "BasicLit", Kind |-> "INT", Value |-> v]

BinaryExpr(x, op, y) == [kind |-> "BinaryExpr", X |-> x, Op |-> op, Y |-> y]

IndexExpr(x, i) == [kind |-> "IndexExpr", X |-> x, Index |-> i]

CallExpr(fun) == [kind |-> "CallExpr", Fun |-> fun]

Field(names, type) == [Names |-> names, Type |-> type]

FieldList(list) == [kind |-> "FieldList", List |-> list]

(* Statements and declarations as written in the source text: children are *)
(* nested.  Parsing (ParseFile) turns them into heap nodes with ids.           *)

AssignStmt(lhs, tok, rhs) == [kind |-> "AssignStmt", Lhs |-> lhs, Tok |-> tok, Rhs |-> rhs]

IncDecStmt(x, tok) == [kind |-> "IncDecStmt", X |-> x, Tok |-> tok]

ExprStmt(x) == [kind |-> "ExprStmt", X |-> x]

BranchStmt(tok) == [kind |-> "BranchStmt", Tok |-> tok]

BlockStmt(list) == [kind |-> "BlockStmt", List |-> list]

ForStmt(init, cond, post, body) ==
    [kind |-> "ForStmt", Init |-> init, Cond |-> cond, Post |-> post, Body |-> body]

IfStmt(cond, body, els) == [kind |-> "IfStmt", Cond |-> cond, Body |-> body, Else |-> els]

FuncDecl(name, params, body) ==
    [kind |-> "FuncDecl", Name |-> Ident(name), Params |-> params, Body |-> body]

GenDecl == [kind |-> "GenDecl"]

----------------------------------------------------------------------------
(* strings.ToLower and strings.HasPrefix.  A function name is the sequence *)
(* of its characters; the other identifiers are only compared whole.       *)

UpperLetters ==
    <<"A", "B", "C", "D", "E", "F", "G", "H", "I", "J", "K", "L", "M",
      "N", "O", "P", "Q", "R", "S", "T", "U", "V", "W", "X", "Y", "Z">>

LowerLetters ==
    <<"a", "b", "c", "d", "e", "f", "g", "h", "i", "j", "k", "l", "m",
      "n", "o", "p", "q", "r", "s", "t", "u", "v", "w", "x", "y", "z">>

ToLowerChar(c) ==
    IF \E k \in DOMAIN UpperLetters : UpperLetters[k] = c
    THEN LowerLetters[CHOOSE k \in DOMAIN UpperLetters : UpperLetters[k] = c]
    ELSE c

ToLower(s) == [k \in DOMAIN s |-> ToLowerChar(s[k])]

HasPrefix(s, prefix) ==
    Len(s) >= Len(prefix) /\ SubSeq(s, 1, Len(prefix)) = prefix

BenchPrefix == <<"b", "e", "n", "c", "h">>

----------------------------------------------------------------------------
(* The heap and parsing.                                                   *)

New(h, node) == [h |-> Append(h, node), id |-> Len(h) + 1]

RECURSIVE Size(_)
RECURSIVE SizeList(_)
RECURSIVE Nodes(_, _)
RECURSIVE NodesList(_, _)
RECURSIVE IdsList(_, _)

\* the number of nodes the text t is parsed into
Size(t) ==
    CASE t.kind = "nil" -> 0
      [] t.kind = "ForStmt" -> Size(t.Init) + Size(t.Cond) + Size(t.Post) + Size(t.Body) + 1
      [] t.kind = "IfStmt" -> Size(t.Cond) + Size(t.Body) + Size(t.Else) + 1
      [] t.kind = "BlockStmt" -> SizeList(t.List) + 1
      [] t.kind = "FuncDecl" -> Size(t.Body) + 1
      [] OTHER -> 1

SizeList(ts) == IF Len(ts) = 0 THEN 0 ELSE Size(Head(ts)) + SizeList(Tail(ts))

\* the pointer to the node of t when its nodes are allocated after `base`
\* nodes: children first, the node itself last
RootId(t, base) == IF t.kind = "nil" THEN 0 ELSE base + Size(t)

(* parser.ParseFile: every node of the text gets a node of its own.        *)
Nodes(t, base) ==
    CASE t.kind = "nil" -> <<>>
      [] t.kind = "ForStmt" ->
            LET b2 == base + Size(t.Init)
                b3 == b2 + Size(t.Cond)
                b4 == b3 + Size(t.Post)
            IN  Nodes(t.Init, base) \o Nodes(t.Cond, b2) \o Nodes(t.Post, b3)
                \o Nodes(t.Body, b4)
                \o <<[kind |-> "ForStmt", Init |-> RootId(t.Init, base),
                      Cond |-> RootId(t.Cond, b2), Post |-> RootId(t.Post, b3),
                      Body |-> RootId(t.Body, b4)]>>
      [] t.kind = "IfStmt" ->
            LET b2 == base + Size(t.Cond)
                b3 == b2 + Size(t.Body)
            IN  Nodes(t.Cond, base) \o Nodes(t.Body, b2) \o Nodes(t.Else, b3)
                \o <<[kind |-> "IfStmt", Cond |-> RootId(t.Cond, base),
                      Body |-> RootId(t.Body, b2), Else |-> RootId(t.Else, b3)]>>
      [] t.kind = "BlockStmt" ->
            NodesList(t.List, base)
            \o <<[kind |-> "BlockStmt", List |-> IdsList(t.List, base)]>>
      [] t.kind = "FuncDecl" ->
            Nodes(t.Body, base)
            \o <<[kind |-> "FuncDecl", Name |-> t.Name, Params |-> t.Params,
                  Body |-> RootId(t.Body, base)]>>
      [] OTHER -> <<t>>

NodesList(ts, base) ==
    IF Len(ts) = 0 THEN <<>>
    ELSE Nodes(Head(ts), base) \o NodesList(Tail(ts), base + Size(Head(ts)))

IdsList(ts, base) ==
    IF Len(ts) = 0 THEN <<>>
    ELSE <<RootId(Head(ts), base)>> \o IdsList(Tail(ts), base + Size(Head(ts)))

\* the parsed file: its nodes and f.Decls
ParseFile(file) == [h |-> NodesList(file, 0), ids |-> IdsList(file, 0)]

RECURSIVE Tree(_, _)

(* printer.Fprint walks the tree from a node: what it reaches, pointers    *)
(* followed, is the text it prints.                                        *)
Tree(h, id) ==
    IF id = 0 THEN Nil
    ELSE LET n == h[id] IN
        CASE n.kind = "ForStmt" ->
                ForStmt(Tree(h, n.Init), Tree(h, n.Cond), Tree(h, n.Post), Tree(h, n.Body))
          [] n.kind = "IfStmt" ->
                IfStmt(Tree(h, n.Cond), Tree(h, n.Body), Tree(h, n.Else))
          [] n.kind = "BlockStmt" ->
                BlockStmt([k \in DOMAIN n.List |-> Tree(h, n.List[k])])
          [] n.kind = "FuncDecl" ->
                [kind |-> "FuncDecl", Name |-> n.Name, Params |-> n.Params,
                 Body |-> Tree(h, n.Body)]
          [] OTHER -> n

FileTree(h, decls) == [k \in DOMAIN decls |-> Tree(h, decls[k])]

----------------------------------------------------------------------------
(* isBench (lines 102-130).                                                *)

isBenchParam(p) ==
    /\ Len(p.Names) = 1
    /\ p.Names[1].Name = "b"
    /\ p.Type.kind = "StarExpr"
    /\ p.Type.X.kind = "SelectorExpr"
    /\ p.Type.X.Sel.Name = "B"
    /\ p.Type.X.X.kind = "Ident"
    /\ p.Type.X.X.Name = "testing"

\* isBench without the test of the name
isBenchAnyName(n) ==
    IF n.Params = Nil \/ Len(n.Params.List) = 0
    THEN FALSE
    ELSE \E k \in DOMAIN n.Params.List : isBenchParam(n.Params.List[k])

isBench(n) ==
    IF \/ ~HasPrefix(ToLower(n.Name.Name), BenchPrefix)
       \/ n.Params = Nil
       \/ Len(n.Params.List) = 0
    THEN FALSE
    ELSE \E k \in DOMAIN n.Params.List : isBenchParam(n.Params.List[k])

----------------------------------------------------------------------------
(* isBenchForLoop (lines 141-193): is, id, body of statement node s.       *)

NoMatch == [is |-> FALSE, id |-> "", body |-> 0]

\* isBenchForLoop without the test that the post statement increments
isBenchForLoopAnyIncDec(h, s) ==
    LET f == h[s] IN
    IF /\ f.kind = "ForStmt"
       /\ f.Init # 0 /\ f.Cond # 0 /\ f.Post # 0
       /\ h[f.Cond].kind = "BinaryExpr" /\ h[f.Cond].Op = "<"
       /\ h[f.Cond].Y.kind = "SelectorExpr" /\ h[f.Cond].Y.Sel.Name = "N"
       /\ h[f.Cond].Y.X.kind = "Ident" /\ h[f.Cond].Y.X.Name = "b"
       /\ h[f.Cond].X.kind = "Ident"
       /\ h[f.Init].kind = "AssignStmt"
       /\ Len(h[f.Init].Lhs) = 1 /\ Len(h[f.Init].Rhs) = 1
       /\ h[f.Init].Lhs[1].kind = "Ident"
       /\ h[f.Init].Lhs[1].Name = h[f.Cond].X.Name
       /\ h[f.Post].kind = "IncDecStmt"
       /\ h[f.Post].X.kind = "Ident"
       /\ h[f.Post].X.Name = h[f.Cond].X.Name
    THEN [is |-> TRUE, id |-> h[f.Cond].X.Name, body |-> f.Body]
    ELSE NoMatch

isBenchForLoop(h, s) ==
    LET f == h[s] IN
    IF f.kind # "ForStmt" THEN NoMatch
    ELSE IF f.Init = 0 \/ f.Cond = 0 \/ f.Post = 0 THEN NoMatch
    ELSE LET bin == h[f.Cond]
             ini == h[f.Init]
             post == h[f.Post]
         IN
         \* condition not of form a < b
         IF bin.kind # "BinaryExpr" \/ bin.Op # "<" THEN NoMatch
         \* rhs must be b.N
         ELSE IF bin.Y.kind # "SelectorExpr" \/ bin.Y.Sel.Name # "N" THEN NoMatch
         ELSE IF bin.Y.X.kind # "Ident" \/ bin.Y.X.Name # "b" THEN NoMatch
         \* i must be an ident
         ELSE IF bin.X.kind # "Ident" THEN NoMatch
         ELSE IF ini.kind # "AssignStmt" \/ Len(ini.Lhs) # 1 \/ Len(ini.Rhs) # 1
              THEN NoMatch
         ELSE IF ini.Lhs[1].kind # "Ident" \/ ini.Lhs[1].Name # bin.X.Name
              THEN NoMatch
         ELSE IF post.kind # "IncDecStmt" \/ post.Tok # "++" THEN NoMatch
         ELSE IF post.X.kind # "Ident" \/ post.X.Name # bin.X.Name THEN NoMatch
         ELSE [is |-> TRUE, id |-> bin.X.Name, body |-> f.Body]

----------------------------------------------------------------------------
(* unrolled (lines 195-259): the nodes it allocates and the statement it   *)
(* returns.  f.Init, f.Post and body are pointers copied into the new      *)
(* nodes, not new nodes.                                                   *)

\* lines 231-234: ten = append(ten, body), UnrollFactor times
Ten(body) == [k \in 1..UnrollFactor |-> body]

\* unrolled without the if/else around the loops: the loop itself, its body
\* made of the ten copies
unrolledBare(h, f, id, body) ==
    LET tenb == New(h, [kind |-> "BlockStmt", List |-> Ten(body)])
    IN  New(tenb.h, [kind |-> "ForStmt", Init |-> h[f].Init, Cond |-> h[f].Cond,
                     Post |-> h[f].Post, Body |-> tenb.id])

\* unrolled with the divided bound in both loops
unrolledBothDivided(h, f, id, body) ==
    LET cond == New(h, BinaryExpr(Ident("b.N"), "<", BasicLit(UnrollFactor)))
        scond == New(cond.h,
                     BinaryExpr(Ident(id), "<",
                                BinaryExpr(Ident("b.N"), "/", BasicLit(UnrollFactor))))
        small == New(scond.h, [kind |-> "ForStmt", Init |-> h[f].Init,
                               Cond |-> scond.id, Post |-> h[f].Post,
                               Body |-> body])
        then == New(small.h, [kind |-> "BlockStmt", List |-> <<small.id>>])
        tenb == New(then.h, [kind |-> "BlockStmt", List |-> Ten(body)])
        big == New(tenb.h, [kind |-> "ForStmt", Init |-> h[f].Init,
                            Cond |-> scond.id, Post |-> h[f].Post,
                            Body |-> tenb.id])
        els == New(big.h, [kind |-> "BlockStmt", List |-> <<big.id>>])
    IN  New(els.h, [kind |-> "IfStmt", Cond |-> cond.id, Body |-> then.id,
                    Else |-> els.id])

unrolled(h, f, id, body) ==
    LET cond == New(h, BinaryExpr(Ident("b.N"), "<", BasicLit(UnrollFactor)))
        small == New(cond.h, [kind |-> "ForStmt", Init |-> h[f].Init,
                              Cond |-> h[f].Cond, Post |-> h[f].Post,
                              Body |-> body])
        then == New(small.h, [kind |-> "BlockStmt", List |-> <<small.id>>])
        bcond == New(then.h,
                     BinaryExpr(Ident(id), "<",
                                BinaryExpr(Ident("b.N"), "/", BasicLit(UnrollFactor))))
        tenb == New(bcond.h, [kind |-> "BlockStmt", List |-> Ten(body)])
        big == New(tenb.h, [kind |-> "ForStmt", Init |-> h[f].Init,
                            Cond |-> bcond.id, Post |-> h[f].Post,
                            Body |-> tenb.id])
        els == New(big.h, [kind |-> "BlockStmt", List |-> <<big.id>>])
    IN  New(els.h, [kind |-> "IfStmt", Cond |-> cond.id, Body |-> then.id,
                    Else |-> els.id])

----------------------------------------------------------------------------
(* Input files of the pass.                                                *)

TestingB == StarExpr(SelectorExpr(Ident("testing"), "B"))

ParamB == Field(<<Ident("b")>>, TestingB)

FuncNames ==
    { <<"B", "e", "n", "c", "h", "m", "a", "r", "k", "F", "o", "o">>,
      <<"b", "e", "n", "c", "h", "m", "a", "r", "k", "B", "i", "t">>,
      <<"B", "E", "N", "C", "H", "x">>,
      <<"b", "e", "n", "c", "h">>,
      <<"b", "e", "n">>,
      <<"T", "e", "s", "t", "F", "o", "o">>,
      <<"u", "n", "b", "e", "n", "c", "h">>,
      <<"B", "e", "n", "k", "h">> }

ParamLists ==
    { Nil,
      FieldList(<<>>),
      FieldList(<<ParamB>>),
      FieldList(<<Field(<<Ident("b"), Ident("c")>>, TestingB)>>),
      FieldList(<<Field(<<Ident("c"), Ident("b")>>, TestingB)>>),
      FieldList(<<Field(<<Ident("c")>>, TestingB)>>),
      FieldList(<<Field(<<>>, TestingB)>>),
      FieldList(<<Field(<<Ident("b")>>, SelectorExpr(Ident("testing"), "B"))>>),
      FieldList(<<Field(<<Ident("b")>>, StarExpr(SelectorExpr(Ident("testing"), "T")))>>),
      FieldList(<<Field(<<Ident("b")>>, StarExpr(SelectorExpr(Ident("check"), "B")))>>),
      FieldList(<<Field(<<Ident("b")>>, StarExpr(Ident("B")))>>),
      FieldList(<<Field(<<Ident("b")>>,
                        StarExpr(SelectorExpr(SelectorExpr(Ident("x"), "testing"), "B")))>>),
      FieldList(<<Field(<<Ident("b")>>, Ident("int"))>>),
      FieldList(<<Field(<<Ident("n")>>, Ident("int")), ParamB>>),
      FieldList(<<ParamB, Field(<<Ident("nbits")>>, Ident("uint"))>>),
      FieldList(<<Field(<<Ident("n"), Ident("b")>>, Ident("int")),
                  Field(<<Ident("c")>>, TestingB)>>) }

Work == ExprStmt(CallExpr(Ident("work")))

InitOf(id, tok, v) == AssignStmt(<<Ident(id)>>, tok, <<BasicLit(v)>>)

CondOf(id) == BinaryExpr(Ident(id), "<", SelectorExpr(Ident("b"), "N"))

PostOf(id) == IncDecStmt(Ident(id), "++")

LoopOf(id, tok, v, body) == ForStmt(InitOf(id, tok, v), CondOf(id), PostOf(id), body)

\* for i := 0; i < b.N; i++ { work() }
Canonical == LoopOf("i", ":=", 0, BlockStmt(<<Work>>))

AcceptedShapes ==
    { Canonical,
      LoopOf("j", ":=", 0, BlockStmt(<<Work>>)),
      LoopOf("i", ":=", 1, BlockStmt(<<Work>>)),
      LoopOf("i", "=", 0, BlockStmt(<<Work, Work>>)),
      LoopOf("i", ":=", 0, BlockStmt(<<>>)),
      LoopOf("i", ":=", 0, BlockStmt(<<LoopOf("j", ":=", 0, BlockStmt(<<Work>>))>>)),
      LoopOf("i", ":=", 0, BlockStmt(<<Work, PostOf("i")>>)) }

WithInit(init) == ForStmt(init, CondOf("i"), PostOf("i"), BlockStmt(<<Work>>))

WithCond(cond) == ForStmt(InitOf("i", ":=", 0), cond, PostOf("i"), BlockStmt(<<Work>>))

WithPost(post) == ForStmt(InitOf("i", ":=", 0), CondOf("i"), post, BlockStmt(<<Work>>))

RejectedShapes ==
    { WithInit(Nil), WithCond(Nil), WithPost(Nil),
      ForStmt(Nil, Nil, Nil, BlockStmt(<<Work>>)),
      ForStmt(Nil, CondOf("i"), Nil, BlockStmt(<<Work>>)),
      WithCond(Ident("ok")),
      WithCond(CallExpr(Ident("more"))),
      WithCond(BinaryExpr(Ident("i"), "<=", SelectorExpr(Ident("b"), "N"))),
      WithCond(BinaryExpr(Ident("i"), "!=", SelectorExpr(Ident("b"), "N"))),
      WithCond(BinaryExpr(SelectorExpr(Ident("b"), "N"), ">", Ident("i"))),
      WithCond(BinaryExpr(Ident("i"), "<", Ident("n"))),
      WithCond(BinaryExpr(Ident("i"), "<", BasicLit(100))),
      WithCond(BinaryExpr(Ident("i"), "<", SelectorExpr(Ident("b"), "M"))),
      WithCond(BinaryExpr(Ident("i"), "<", SelectorExpr(Ident("c"), "N"))),
      WithCond(BinaryExpr(Ident("i"), "<",
                          SelectorExpr(SelectorExpr(Ident("x"), "b"), "N"))),
      WithCond(BinaryExpr(Ident("i"), "<",
                          BinaryExpr(SelectorExpr(Ident("b"), "N"), "/", BasicLit(2)))),
      WithCond(BinaryExpr(SelectorExpr(Ident("s"), "i"), "<", SelectorExpr(Ident("b"), "N"))),
      WithCond(BinaryExpr(IndexExpr(Ident("a"), BasicLit(0)), "<",
                          SelectorExpr(Ident("b"), "N"))),
      WithInit(InitOf("j", ":=", 0)),
      WithInit(AssignStmt(<<Ident("i"), Ident("j")>>, ":=", <<BasicLit(0), BasicLit(0)>>)),
      WithInit(AssignStmt(<<Ident("j"), Ident("i")>>, ":=", <<CallExpr(Ident("two"))>>)),
      WithInit(AssignStmt(<<SelectorExpr(Ident("s"), "i")>>, "=", <<BasicLit(0)>>)),
      WithInit(ExprStmt(CallExpr(Ident("setup")))),
      WithInit(IncDecStmt(Ident("i"), "++")),
      WithPost(IncDecStmt(Ident("i"), "--")),
      WithPost(IncDecStmt(Ident("j"), "++")),
      WithPost(IncDecStmt(SelectorExpr(Ident("s"), "i"), "++")),
      WithPost(AssignStmt(<<Ident("i")>>, "+=", <<BasicLit(1)>>)),
      WithPost(ExprStmt(CallExpr(Ident("step")))),
      IfStmt(Ident("ok"), BlockStmt(<<Canonical>>), Nil),
      IfStmt(Ident("ok"), BlockStmt(<<Work>>), BlockStmt(<<Canonical>>)),
      BlockStmt(<<Canonical>>),
      ForStmt(Nil, Nil, Nil, BlockStmt(<<Canonical>>)),
      Work,
      InitOf("n", ":=", 0) }

StmtShapes == AcceptedShapes \union RejectedShapes

\* the statements the multi-statement and multi-declaration inputs are made of
CoreStmts == { Canonical, IfStmt(Ident("ok"), BlockStmt(<<Canonical>>), Nil), Work }

SeqsUpTo(S, n) == UNION { [1..k -> S] : k \in 0..n }

CoreDecls ==
    { FuncDecl(name, FieldList(<<ParamB>>), BlockStmt(body)) :
        name \in { <<"B", "e", "n", "c", "h", "A">>, <<"T", "e", "s", "t", "A">> },
        body \in SeqsUpTo(CoreStmts, MaxStmts) }
    \union { GenDecl }

Files ==
    { <<FuncDecl(name, params, BlockStmt(<<Canonical>>))>> :
        name \in FuncNames, params \in ParamLists }
    \union
    { <<FuncDecl(<<"B", "e", "n", "c", "h", "A">>, FieldList(<<ParamB>>), BlockStmt(<<s>>))>> :
        s \in StmtShapes }
    \union
    { <<d, e>> : d \in CoreDecls, e \in CoreDecls }

----------------------------------------------------------------------------
(* The pass of main (lines 55-81), one step per iteration of its loops.    *)

IdlePass ==
    /\ heap = <<>> /\ Decls = <<>> /\ di = 0 /\ si = 0 /\ pass = 0
    /\ heap0 = <<>> /\ heap1 = <<>>

IdleExec == loop = 0 /\ repl = 0 /\ N = 0 /\ ranOrig = <<>> /\ ranRepl = <<>>

IdleRun ==
    /\ args = <<>> /\ pc = "idle" /\ ai = 0 /\ files = <<>> /\ fi = 0
    /\ disk = <<>> /\ out = <<>> /\ exit = -1 /\ trace = <<>>

\* line 46: f, err := parser.ParseFile(...), err == nil
Init ==
    /\ mode = "pass"
    /\ \E file \in Files :
          LET a == ParseFile(file)
          IN  heap = a.h /\ Decls = a.ids /\ heap0 = a.h
    /\ heap1 = <<>>
    /\ di = 1 /\ si = 1 /\ pass = 1
    /\ IdleExec /\ IdleRun

\* line 56 and 66: fn, ok := d.(*ast.FuncDecl); ok && isBench(fn)
IsBenchDecl(h, d) == h[d].kind = "FuncDecl" /\ isBench(h[d])

\* the assignment of line 79 with the index of the first statement
ReplaceStmtFirst(h, block, i, newfor) == [h EXCEPT ![block].List[1] = newfor]

\* line 79: fn.Body.List[i] = newfor
ReplaceStmt(h, block, i, newfor) == [h EXCEPT ![block].List[i] = newfor]

InDecls == mode = "pass" /\ di <= Len(Decls)

\* lines 66-68: continue
SkipDecl ==
    /\ InDecls
    /\ ~IsBenchDecl(heap, Decls[di])
    /\ di' = di + 1
    /\ UNCHANGED <<mode, heap, Decls, si, pass, heap0, heap1, execVars, runVars>>

\* lines 74-77: the statement is no benchmark loop
SkipStmt ==
    /\ InDecls
    /\ IsBenchDecl(heap, Decls[di])
    /\ LET list == heap[heap[Decls[di]].Body].List IN
       /\ si <= Len(list)
       /\ ~isBenchForLoop(heap, list[si]).is
    /\ si' = si + 1
    /\ UNCHANGED <<mode, heap, Decls, di, pass, heap0, heap1, execVars, runVars>>

\* lines 74-79: the statement is a benchmark loop and is replaced
RewriteStmt ==
    /\ InDecls
    /\ IsBenchDecl(heap, Decls[di])
    /\ LET body == heap[Decls[di]].Body
           list == heap[body].List
       IN
       /\ si <= Len(list)
       /\ isBenchForLoop(heap, list[si]).is
       /\ LET m == isBenchForLoop(heap, list[si])
              u == unrolled(heap, list[si], m.id, m.body)
          IN  heap' = ReplaceStmt(u.h, body, si, u.id)
    /\ si' = si + 1
    /\ UNCHANGED <<mode, Decls, di, pass, heap0, heap1, execVars, runVars>>

\* line 73: the range over fn.Body.List is exhausted
EndDecl ==
    /\ InDecls
    /\ IsBenchDecl(heap, Decls[di])
    /\ si > Len(heap[heap[Decls[di]].Body].List)
    /\ di' = di + 1 /\ si' = 1
    /\ UNCHANGED <<mode, heap, Decls, pass, heap0, heap1, execVars, runVars>>

\* the pass is applied a second time to the tree the first pass left
SecondPass ==
    /\ mode = "pass"
    /\ di > Len(Decls) /\ pass = 1
    /\ pass' = 2 /\ di' = 1 /\ si' = 1
    /\ heap1' = heap
    /\ UNCHANGED <<mode, heap, Decls, heap0, execVars, runVars>>

Next == SkipDecl \/ SkipStmt \/ RewriteStmt \/ EndDecl \/ SecondPass

Spec == Init /\ [][Next]_vars

----------------------------------------------------------------------------
(* Vocabulary of the properties of the pass.                               *)

\* fn.Body.List of declaration node d
BodyList(h, d) == h[h[d].Body].List

\* c is the letter l (lower case) in either case
SameLetter(c, l) ==
    c = l \/ \E k \in DOMAIN LowerLetters : LowerLetters[k] = l /\ UpperLetters[k] = c

\* the name begins, case-insensitively, with "bench"
NameBeginsBench(fn) ==
    /\ Len(fn.Name.Name) >= Len(BenchPrefix)
    /\ \A k \in DOMAIN BenchPrefix : SameLetter(fn.Name.Name[k], BenchPrefix[k])

\* some parameter is named b and has the type *testing.B, alone in its
\* declaration or sharing the type with other names
HasParamB(fn) ==
    /\ fn.Params # Nil
    /\ \E k \in DOMAIN fn.Params.List :
          /\ fn.Params.List[k].Type = TestingB
          /\ \E j \in DOMAIN fn.Params.List[k].Names :
                fn.Params.List[k].Names[j] = Ident("b")

\* the text t is a three-clause loop `for x <assign> e; x < b.N; x++`
CanonicalShape(t) ==
    /\ t.kind = "ForStmt"
    /\ t.Init.kind = "AssignStmt"
    /\ t.Cond.kind = "BinaryExpr"
    /\ t.Post.kind = "IncDecStmt"
    /\ t.Cond.Op = "<"
    /\ t.Cond.X.kind = "Ident"
    /\ t.Cond.Y = SelectorExpr(Ident("b"), "N")
    /\ Len(t.Init.Lhs) = 1
    /\ t.Init.Lhs[1] = t.Cond.X
    /\ t.Post = IncDecStmt(t.Cond.X, "++")

FuncDeclIndexes == { k \in DOMAIN Decls : heap0[Decls[k]].kind = "FuncDecl" }

\* the statement at index j of declaration k is not the one that was parsed
Replaced(k, j) == BodyList(heap, Decls[k])[j] # BodyList(heap0, Decls[k])[j]

\* C1: Idempotence.  While and after the pass runs a second time on the tree
\* the first pass left, no statement is replaced and no node is built: the
\* tree, and the text printed from it, are those the first pass left.
C1_Idempotent ==
    (mode = "pass" /\ pass = 2) =>
        /\ heap = heap1
        /\ FileTree(heap, Decls) = FileTree(heap1, Decls)

\* the second pass has ended on a tree in which the first pass replaced a loop
C1_Witness ==
    /\ mode = "pass" /\ pass = 2 /\ di > Len(Decls)
    /\ \E k \in FuncDeclIndexes : \E j \in DOMAIN BodyList(heap0, Decls[k]) : Replaced(k, j)

\* C4: Non-benchmark exclusion.  A function whose name does not begin with
\* "bench" (in any case), or that has no parameter b of type *testing.B, is
\* at every moment the function that was parsed, whatever its body holds.
C4_NonBenchUntouched ==
    mode = "pass" =>
        \A k \in FuncDeclIndexes :
            (~NameBeginsBench(heap0[Decls[k]]) \/ ~HasParamB(heap0[Decls[k]])) =>
                /\ BodyList(heap, Decls[k]) = BodyList(heap0, Decls[k])
                /\ Tree(heap, Decls[k]) = Tree(heap0, Decls[k])

\* the pass went over a function that is no benchmark and holds a loop of the
\* canonical shape, in a file where it did rewrite a benchmark
C4_Witness ==
    /\ mode = "pass" /\ di > Len(Decls)
    /\ \E k \in FuncDeclIndexes :
          /\ ~NameBeginsBench(heap0[Decls[k]])
          /\ \E j \in DOMAIN BodyList(heap0, Decls[k]) :
                isBenchForLoop(heap0, BodyList(heap0, Decls[k])[j]).is
    /\ heap # heap0

\* C5: Structural isolation.  A step that replaces the loop at index si of the
\* body of declaration di keeps the length of that body, leaves every other
\* statement of it the identical, unmodified statement at the same index, and
\* leaves f.Decls and every other declaration as they were.
C5_Isolation ==
    [][(mode = "pass" /\ heap' # heap) =>
          LET body == heap[Decls[di]].Body IN
          /\ Decls' = Decls
          /\ heap'[Decls[di]] = heap[Decls[di]]
          /\ Len(heap'[body].List) = Len(heap[body].List)
          /\ heap'[body].List[si] # heap[body].List[si]
          /\ \A j \in DOMAIN heap[body].List :
                j # si =>
                    /\ heap'[body].List[j] = heap[body].List[j]
                    /\ Tree(heap', heap'[body].List[j]) = Tree(heap, heap[body].List[j])
          /\ \A k \in DOMAIN Decls :
                k # di => Tree(heap', Decls[k]) = Tree(heap, Decls[k])
      ]_vars

\* a loop was replaced in a body of several statements, one of them not
\* replaced, in a file of several declarations
C5_Witness ==
    /\ mode = "pass" /\ Len(Decls) > 1
    /\ \E k \in FuncDeclIndexes :
          /\ Len(BodyList(heap0, Decls[k])) > 1
          /\ \E j \in DOMAIN BodyList(heap0, Decls[k]) : Replaced(k, j)
          /\ \E j \in DOMAIN BodyList(heap0, Decls[k]) : ~Replaced(k, j) /\ (pass = 2 \/ di > k)

\* C6: Loop-shape exclusion.  A statement of a function body is replaced only
\* if it is, directly in that body, a three-clause loop `for x ...; x < b.N;
\* x++` whose initializer is one assignment to x; every other statement, with
\* whatever is nested in it, stays the statement that was parsed.
C6_ShapeExclusion ==
    mode = "pass" =>
        \A k \in FuncDeclIndexes :
            /\ Len(BodyList(heap, Decls[k])) = Len(BodyList(heap0, Decls[k]))
            /\ \A j \in DOMAIN BodyList(heap0, Decls[k]) :
                  LET old == BodyList(heap0, Decls[k])[j]
                      new == BodyList(heap, Decls[k])[j]
                  IN  \/ CanonicalShape(Tree(heap0, old))
                      \/ (new = old /\ Tree(heap, new) = Tree(heap0, old))

\* the pass went over a benchmark whose body holds a for loop that is not of
\* the canonical shape, or holds the canonical loop only nested in a statement
C6_Witness ==
    /\ mode = "pass" /\ pass = 1
    /\ \E k \in FuncDeclIndexes :
          /\ di > k
          /\ isBench(heap0[Decls[k]])
          /\ \E j \in DOMAIN BodyList(heap0, Decls[k]) :
                LET t == Tree(heap0, BodyList(heap0, Decls[k])[j]) IN
                /\ ~CanonicalShape(t)
                /\ \/ t.kind = "ForStmt" /\ t.Post = IncDecStmt(Ident("i"), "--")
                   \/ t.kind = "IfStmt" /\ t.Body.List[1] = Canonical

\* C10: Benchmark predicate.  isBench is true of a function exactly when its
\* name begins with "bench" in any case, it declares a parameter, and a
\* parameter named b has type *testing.B, however the parameters are grouped.
C10_BenchPredicate ==
    mode = "pass" =>
        \A k \in FuncDeclIndexes :
            LET fn == heap0[Decls[k]] IN
            isBench(fn) <=>
                /\ NameBeginsBench(fn)
                /\ fn.Params # Nil
                /\ Len(fn.Params.List) > 0
                /\ HasParamB(fn)

----------------------------------------------------------------------------
(* Pointers in the tree.                                                   *)

\* the pointers node n holds, one entry per pointer
Refs(h, n) ==
    CASE h[n].kind = "ForStmt" ->
            SelectSeq(<<h[n].Init, h[n].Cond, h[n].Post, h[n].Body>>, LAMBDA x : x # 0)
      [] h[n].kind = "IfStmt" ->
            SelectSeq(<<h[n].Cond, h[n].Body, h[n].Else>>, LAMBDA x : x # 0)
      [] h[n].kind = "BlockStmt" -> h[n].List
      [] h[n].kind = "FuncDecl" -> SelectSeq(<<h[n].Body>>, LAMBDA x : x # 0)
      [] OTHER -> <<>>

RECURSIVE ReachFrom(_, _)

\* the nodes of the tree under node n, n included
ReachFrom(h, n) ==
    {n} \union UNION { ReachFrom(h, Refs(h, n)[k]) : k \in DOMAIN Refs(h, n) }

\* the nodes of the file's tree
InTree(h, decls) == UNION { ReachFrom(h, decls[k]) : k \in DOMAIN decls }

\* the pointers to node x held by nodes of the file's tree
Parents(h, decls, x) ==
    { <<n, k>> \in InTree(h, decls) \X (1..Len(h)) :
          k \in DOMAIN Refs(h, n) /\ Refs(h, n)[k] = x }

\* C7: Independent clones.  In the rewritten tree every node has one parent:
\* the ten copies of the body in the unrolled loop are ten nodes, none of them
\* the body of the small-N loop.
C7_SingleParent ==
    mode = "pass" =>
        \A x \in InTree(heap, Decls) :
            Cardinality(Parents(heap, Decls, x)) =
                (IF \E k \in DOMAIN Decls : Decls[k] = x THEN 0 ELSE 1)

----------------------------------------------------------------------------
(* Execution of the statements the tool reads and writes, as the Go        *)
(* compiler gives it to the printed text.  The machine state is the value  *)
(* of each variable, b.N among them, how often the probed nodes have been  *)
(* executed, and the pending break or continue.                            *)

Only(S) == CHOOSE x \in S : TRUE

\* Go's integer division truncates toward zero
Quo(a, b) == IF a >= 0 THEN a \div b ELSE -((-a) \div b)

RECURSIVE Eval(_, _)

\* An identifier printed as b.N (the "cheat" of lines 211 and 244) is read by
\* the compiler as the selector b.N.
Eval(e, env) ==
    CASE e.kind = "BasicLit" -> e.Value
      [] e.kind = "Ident" -> env[e.Name]
      [] e.kind = "SelectorExpr" -> env["b.N"]
      [] e.kind = "BinaryExpr" ->
            CASE e.Op = "<" -> Eval(e.X, env) < Eval(e.Y, env)
              [] e.Op = "/" -> Quo(Eval(e.X, env), Eval(e.Y, env))

\* the variable an assignable expression names
Target(e) == IF e.kind = "Ident" THEN e.Name ELSE "b.N"

Hit(st, probe, s) ==
    [st EXCEPT !.bodies = IF s = probe.body THEN @ + 1 ELSE @,
               !.posts = IF s = probe.post THEN @ + 1 ELSE @]

RECURSIVE ExecStmt(_, _, _, _)
RECURSIVE ExecList(_, _, _, _)
RECURSIVE ExecLoop(_, _, _, _)

ExecStmt(h, s, probe, st0) ==
    LET n == h[s]
        st == Hit(st0, probe, s)
    IN
    CASE n.kind = "ExprStmt" -> st
      [] n.kind = "IncDecStmt" ->
            [st EXCEPT !.env[Target(n.X)] = IF n.Tok = "++" THEN @ + 1 ELSE @ - 1]
      [] n.kind = "AssignStmt" ->
            [st EXCEPT !.env[Target(n.Lhs[1])] = Eval(n.Rhs[1], st.env)]
      [] n.kind = "BranchStmt" -> [st EXCEPT !.ctl = n.Tok]
      [] n.kind = "BlockStmt" -> ExecList(h, n.List, probe, st)
      [] n.kind = "IfStmt" ->
            IF Eval(h[n.Cond], st.env)
            THEN ExecStmt(h, n.Body, probe,
                          [st EXCEPT !.branch = IF s = probe.ifs THEN "then" ELSE @])
            ELSE IF n.Else # 0
            THEN ExecStmt(h, n.Else, probe,
                          [st EXCEPT !.branch = IF s = probe.ifs THEN "else" ELSE @])
            ELSE st
      [] n.kind = "ForStmt" ->
            IF n.Init = 0 THEN ExecLoop(h, s, probe, st)
            ELSE Only({ ExecLoop(h, s, probe, i) : i \in {ExecStmt(h, n.Init, probe, st)} })

ExecList(h, list, probe, st) ==
    IF Len(list) = 0 \/ st.ctl # "next" THEN st
    ELSE Only({ ExecList(h, Tail(list), probe, r) :
                    r \in {ExecStmt(h, Head(list), probe, st)} })

\* one test of the condition, then body, post statement and the next test
ExecLoop(h, f, probe, st) ==
    IF h[f].Cond # 0 /\ ~Eval(h[h[f].Cond], st.env) THEN st
    ELSE Only({ IF b.ctl = "break" THEN [b EXCEPT !.ctl = "next"]
                ELSE Only({ ExecLoop(h, f, probe, p) :
                              p \in { IF h[f].Post = 0 THEN [b EXCEPT !.ctl = "next"]
                                      ELSE ExecStmt(h, h[f].Post, probe,
                                                    [b EXCEPT !.ctl = "next"]) } }) :
                b \in {ExecStmt(h, h[f].Body, probe, st)} })

\* the machine before statement s runs, b.N being n
Fresh(n) ==
    [env |-> [v \in {"i", "j", "k", "b.N"} |-> IF v = "b.N" THEN n ELSE 0],
     bodies |-> 0, posts |-> 0, branch |-> "none", ctl |-> "next"]

\* what is counted: executions of the loop's body block and of its post
\* statement, and the branch taken by the replacement
Probe(h, f, ifs) == [body |-> h[f].Body, post |-> h[f].Post, ifs |-> ifs]

Run(h, s, probe, n) == ExecStmt(h, s, probe, Fresh(n))

----------------------------------------------------------------------------
(* Accepted loops that are run.                                            *)

ExecBodies(id) ==
    { <<Work>>,
      <<Work, Work>>,
      <<>>,
      <<Work, IncDecStmt(Ident(id), "++")>>,
      <<Work, AssignStmt(<<SelectorExpr(Ident("b"), "N")>>, "=", <<BasicLit(0)>>)>>,
      <<Work, BranchStmt("break")>>,
      <<BranchStmt("continue"), Work>>,
      <<ForStmt(InitOf("k", ":=", 0), BinaryExpr(Ident("k"), "<", BasicLit(2)),
                PostOf("k"), BlockStmt(<<Work>>))>> }

ExecLoops ==
    { LoopOf(id, ":=", v, BlockStmt(body)) :
        id \in {"i"}, v \in 0..MaxInit, body \in ExecBodies("i") }
    \union
    { LoopOf("j", "=", v, BlockStmt(<<Work>>)) : v \in 0..MaxInit }

InitExec ==
    /\ mode = "exec"
    /\ \E t \in ExecLoops :
          LET a == ParseFile(<<t>>)
          IN  heap = a.h /\ heap0 = a.h /\ loop = a.ids[1]
    /\ N \in 0..MaxN
    /\ repl = 0 /\ ranOrig = <<>> /\ ranRepl = <<>>
    /\ Decls = <<>> /\ di = 0 /\ si = 0 /\ pass = 0 /\ heap1 = <<>>
    /\ IdleRun

\* lines 74-78: the loop is matched and its replacement built
Unroll ==
    /\ mode = "exec" /\ repl = 0
    /\ isBenchForLoop(heap, loop).is
    /\ LET m == isBenchForLoop(heap, loop)
           u == unrolled(heap, loop, m.id, m.body)
       IN  heap' = u.h /\ repl' = u.id
    /\ UNCHANGED <<mode, Decls, di, si, pass, heap0, heap1, loop, N, ranOrig, ranRepl, runVars>>

\* the benchmark runs the loop as it was written
RunOriginal ==
    /\ mode = "exec" /\ ranOrig = <<>>
    /\ ranOrig' = <<Run(heap, loop, Probe(heap, loop, 0), N)>>
    /\ UNCHANGED <<mode, passVars, loop, repl, N, ranRepl, runVars>>

\* the benchmark runs the statement the tool wrote in its place
RunReplacement ==
    /\ mode = "exec" /\ repl # 0 /\ ranRepl = <<>>
    /\ ranRepl' = <<Run(heap, repl, Probe(heap, loop, repl), N)>>
    /\ UNCHANGED <<mode, passVars, loop, repl, N, ranOrig, runVars>>

NextExec == Unroll \/ RunOriginal \/ RunReplacement

SpecExec == InitExec /\ [][NextExec]_vars

----------------------------------------------------------------------------
(* Vocabulary of the properties of the execution.                          *)

\* the loop as it was written
LoopText == Tree(heap0, loop)

\* the counter of the loop
Counter == LoopText.Cond.X.Name

StartsAtZero == LoopText.Init.Rhs[1] = BasicLit(0)

RECURSIVE Writes(_, _)

\* the text t assigns to variable v
Writes(t, v) ==
    CASE t.kind = "IncDecStmt" -> Target(t.X) = v
      [] t.kind = "AssignStmt" -> \E k \in DOMAIN t.Lhs : Target(t.Lhs[k]) = v
      [] t.kind = "BlockStmt" -> \E k \in DOMAIN t.List : Writes(t.List[k], v)
      [] t.kind = "ForStmt" -> Writes(t.Init, v) \/ Writes(t.Post, v) \/ Writes(t.Body, v)
      [] t.kind = "IfStmt" -> Writes(t.Body, v) \/ Writes(t.Else, v)
      [] OTHER -> FALSE

RECURSIVE Jumps(_)

\* the text t holds a break or a continue
Jumps(t) ==
    CASE t.kind = "BranchStmt" -> TRUE
      [] t.kind = "BlockStmt" -> \E k \in DOMAIN t.List : Jumps(t.List[k])
      [] t.kind = "ForStmt" -> Jumps(t.Body)
      [] t.kind = "IfStmt" -> Jumps(t.Body) \/ Jumps(t.Else)
      [] OTHER -> FALSE

\* the body writes neither the counter nor b.N and always runs to its end
QuietBody ==
    /\ ~Writes(LoopText.Body, Counter)
    /\ ~Writes(LoopText.Body, "b.N")
    /\ ~Jumps(LoopText.Body)

\* C2: Small-N equivalence.  For every accepted loop and every b.N below 10,
\* the replacement takes its then branch, executes the body as many times as
\* the loop as written does and leaves the same values in the variables; that
\* is b.N times when the counter starts at 0 and the body leaves the counter
\* and b.N alone.
C2_SmallN ==
    (mode = "exec" /\ ranRepl # <<>> /\ N < UnrollFactor) =>
        /\ ranRepl[1].branch = "then"
        /\ ranOrig # <<>> =>
              /\ ranRepl[1].bodies = ranOrig[1].bodies
              /\ ranRepl[1].posts = ranOrig[1].posts
              /\ ranRepl[1].env = ranOrig[1].env
        /\ (StartsAtZero /\ QuietBody) => ranRepl[1].bodies = N

\* the replacement of the canonical loop has run its body 9 times for b.N = 9,
\* as the loop did
C2_Witness ==
    /\ mode = "exec" /\ N = UnrollFactor - 1
    /\ LoopText = Canonical
    /\ ranOrig # <<>> /\ ranRepl # <<>>
    /\ ranOrig[1].bodies = N /\ ranRepl[1].bodies = N

\* C3: Large-N truncation.  For every accepted loop, whatever value its counter
\* starts at, whose body leaves the counter and b.N alone, and every b.N of at
\* least 10, the replacement takes its else branch, runs floor(b.N/10) outer
\* iterations, each incrementing the counter once, and executes the body
\* 10 * floor(b.N/10) times.
C3_LargeN ==
    (mode = "exec" /\ ranRepl # <<>> /\ N >= UnrollFactor /\ QuietBody) =>
        /\ ranRepl[1].branch = "else"
        /\ ranRepl[1].posts = N \div UnrollFactor
        /\ ranRepl[1].env[Counter] = LoopText.Init.Rhs[1].Value + (N \div UnrollFactor)
        /\ ranRepl[1].bodies = UnrollFactor * (N \div UnrollFactor)

----------------------------------------------------------------------------
(* The driver (lines 15-97).  An argument is a package path together with  *)
(* what build.Import answers for it; a file is the directory of its        *)
(* package and its name.  Whether a system call fails is the environment's *)
(* choice at the step that makes it.                                       *)

Pkg(path, resolves, tests, xtests) ==
    [path |-> path, resolves |-> resolves, TestGoFiles |-> tests, XTestGoFiles |-> xtests]

FileNames(suffix, n) == [k \in 1..n |-> <<suffix, k>>]

PkgChoices ==
    { Pkg("syscall", TRUE, FileNames("_test.go", 1), <<>>),
      Pkg("missing", FALSE, <<>>, <<>>),
      Pkg("b", TRUE, FileNames("_test.go", 1), <<>>) }
    \union
    { Pkg("a", TRUE, FileNames("_test.go", t), FileNames("_x_test.go", x)) :
        t \in 0..MaxPkgFiles, x \in 0..MaxPkgFiles }

\* filepath.Join(pkg.Dir, file) for each name
Joined(pkg, names) == [k \in DOMAIN names |-> [dir |-> pkg.path, name |-> names[k]]]

FilesOf(pkg) == Joined(pkg, pkg.TestGoFiles) \o Joined(pkg, pkg.XTestGoFiles)

Range(q) == { q[k] : k \in DOMAIN q }

InitRun ==
    /\ mode = "run"
    /\ args \in SeqsUpTo(PkgChoices, MaxArgs)
    /\ \A j, k \in DOMAIN args : args[j].path = args[k].path => args[j] = args[k]
    /\ disk = [f \in UNION { Range(FilesOf(args[k])) : k \in DOMAIN args } |-> "original"]
    /\ pc = "start" /\ ai = 1 /\ files = <<>> /\ fi = 1
    /\ out = <<>> /\ exit = -1 /\ trace = <<>>
    /\ IdlePass /\ IdleExec

Running == mode = "run" /\ exit = -1

Did(step, at, ok) == trace' = Append(trace, [step |-> step, at |-> at, ok |-> ok])

\* fatal that prints the message and returns
fatalNoExit(msg) == out' = Append(out, [kind |-> "error", msg |-> msg]) /\ exit' = exit

\* lines 94-97: fmt.Println(msg); os.Exit(1)
fatal(msg) == out' = Append(out, [kind |-> "error", msg |-> msg]) /\ exit' = 1

\* lines 16-23
Start ==
    /\ Running /\ pc = "start"
    /\ pc' = "import"
    /\ IF Len(args) = 0
       THEN /\ out' = Append(out, [kind |-> "usage", msg |-> "usage"])
            /\ exit' = 2
            /\ Did("usage", 0, TRUE)
       ELSE \E ok \in BOOLEAN :
               /\ Did("getwd", 0, ok)
               /\ IF ok THEN UNCHANGED <<out, exit>> ELSE fatal("getwd")
    /\ UNCHANGED <<mode, passVars, execVars, args, ai, files, fi, disk>>

\* lines 25-40, one iteration
Import ==
    /\ Running /\ pc = "import" /\ ai <= Len(args)
    /\ ai' = ai + 1
    /\ IF args[ai].path = "syscall"
       THEN /\ Did("skip", ai, TRUE)
            /\ UNCHANGED <<files, out, exit>>
       ELSE /\ Did("import", ai, args[ai].resolves)
            /\ IF args[ai].resolves
               THEN files' = files \o FilesOf(args[ai]) /\ UNCHANGED <<out, exit>>
               ELSE fatal("import") /\ UNCHANGED files
    /\ UNCHANGED <<mode, passVars, execVars, args, pc, fi, disk>>

\* line 42: the range over files begins
Imported ==
    /\ Running /\ pc = "import" /\ ai > Len(args)
    /\ pc' = "announce"
    /\ UNCHANGED <<mode, passVars, execVars, args, ai, files, fi, disk, out, exit, trace>>

AtFile(step) == Running /\ pc = step /\ fi <= Len(files)

\* line 43: fmt.Println("Processing", file)
Announce ==
    /\ AtFile("announce")
    /\ pc' = "parse"
    /\ out' = Append(out, [kind |-> "processing", msg |-> files[fi]])
    /\ Did("announce", fi, TRUE)
    /\ UNCHANGED <<mode, passVars, execVars, args, ai, files, fi, disk, exit>>

\* lines 44-49: parser.ParseFile
Parse ==
    /\ AtFile("parse")
    /\ pc' = "stat"
    /\ \E ok \in BOOLEAN :
          /\ Did("parse", fi, ok)
          /\ IF ok THEN UNCHANGED <<out, exit>> ELSE fatal("parse")
    /\ UNCHANGED <<mode, passVars, execVars, args, ai, files, fi, disk>>

\* lines 50-53
Stat ==
    /\ AtFile("stat")
    /\ pc' = "rewrite"
    /\ \E ok \in BOOLEAN :
          /\ Did("stat", fi, ok)
          /\ IF ok THEN UNCHANGED <<out, exit>> ELSE fatal("stat")
    /\ UNCHANGED <<mode, passVars, execVars, args, ai, files, fi, disk>>

\* lines 55-81: the pass, which touches the tree in memory only
Rewrite ==
    /\ AtFile("rewrite")
    /\ pc' = "open"
    /\ Did("rewrite", fi, TRUE)
    /\ UNCHANGED <<mode, passVars, execVars, args, ai, files, fi, disk, out, exit>>

\* lines 83-86: os.OpenFile(file, os.O_WRONLY|os.O_TRUNC, fi.Mode())
Open ==
    /\ AtFile("open")
    /\ pc' = "print"
    /\ \E ok \in BOOLEAN :
          /\ Did("open", fi, ok)
          /\ IF ok
             THEN disk' = [disk EXCEPT ![files[fi]] = "empty"] /\ UNCHANGED <<out, exit>>
             ELSE fatal("open") /\ UNCHANGED disk
    /\ UNCHANGED <<mode, passVars, execVars, args, ai, files, fi>>

\* lines 87-89: printer.Fprint(c, fset, f); a failing write leaves what was
\* written before it
Fprint ==
    /\ AtFile("print")
    /\ pc' = "close"
    /\ \E ok \in BOOLEAN :
          /\ Did("print", fi, ok)
          /\ IF ok
             THEN disk' = [disk EXCEPT ![files[fi]] = "emitted"] /\ UNCHANGED <<out, exit>>
             ELSE /\ \E left \in {"empty", "partial"} :
                        disk' = [disk EXCEPT ![files[fi]] = left]
                  /\ fatal("print")
    /\ UNCHANGED <<mode, passVars, execVars, args, ai, files, fi>>

\* line 90: c.Close(), and the next file
Close ==
    /\ AtFile("close")
    /\ pc' = "announce" /\ fi' = fi + 1
    /\ Did("close", fi, TRUE)
    /\ UNCHANGED <<mode, passVars, execVars, args, ai, files, disk, out, exit>>

\* line 92: main returns
Return ==
    /\ Running /\ pc = "announce" /\ fi > Len(files)
    /\ exit' = 0
    /\ UNCHANGED <<mode, passVars, execVars, args, pc, ai, files, fi, disk, out, trace>>

NextRun ==
    \/ Start \/ Import \/ Imported
    \/ Announce \/ Parse \/ Stat \/ Rewrite \/ Open \/ Fprint \/ Close
    \/ Return

SpecRun == InitRun /\ [][NextRun]_vars

\* the steps that failed, and the diagnostics printed
Failures == { k \in DOMAIN trace : ~trace[k].ok }

Diagnostics == { k \in DOMAIN out : out[k].kind = "error" }

FileSteps == {"announce", "parse", "stat", "rewrite", "open", "print", "close"}

\* C8: Atomic overwrite.  When the run has stopped, by returning or by a
\* failure at any step, every file holds its whole original content or the
\* whole emitted content, never an empty or partly written one.
C8_AtomicOverwrite ==
    (mode = "run" /\ exit # -1) =>
        \A f \in DOMAIN disk : disk[f] \in {"original", "emitted"}

\* C9: Fail-fast abort.  Once a step has failed the process has exited with
\* status 1 and has printed one diagnostic, its last line; the failed step is
\* the last step executed, so no later package is resolved and no later file
\* is parsed or written.
C9_FailFast ==
    (mode = "run" /\ Failures # {}) =>
        /\ exit = 1
        /\ Failures = {Len(trace)}
        /\ Diagnostics = {Len(out)}
        /\ out[Len(out)].msg = trace[Len(trace)].step
        /\ \A k \in DOMAIN trace :
              trace[k].step \in FileSteps => trace[k].at <= fi
        /\ \A k \in DOMAIN files :
              (k > fi /\ \A j \in 1..fi : files[j] # files[k]) => disk[files[k]] = "original"
        /\ (trace[Len(trace)].step \in {"getwd", "import"}) =>
              \A f \in DOMAIN disk : disk[f] = "original"

\* a step on the first of several files failed after an earlier package was
\* resolved: the run is over and the later files are as they were
C9_Witness ==
    /\ mode = "run" /\ exit = 1
    /\ Len(files) > 1 /\ fi = 1
    /\ trace[Len(trace)].step = "print" /\ ~trace[Len(trace)].ok
    /\ disk[files[2]] = "original"

====
